---------------------------- MODULE Spec2Model ----------------------------
(***************************************************************************)
(* Model of the PDF extractor service: src/pdf_extractor.py (file-type     *)
(* detection, native PDF parsing, OCR of images, key/value heuristic) and  *)
(* src/main.py (the upload handler).                                       *)
(*                                                                         *)
(* Python strings are sequences of one-character strings, bytes objects    *)
(* are sequences of integers in 0..255.                                    *)
(***************************************************************************)
EXTENDS Integers, Sequences, FiniteSets, TLC

VARIABLES
    pc,              \* position of the running call
    file_path,       \* argument of _detect_file_type / extract_pdf_data
    disk_file,       \* what the filesystem holds at file_path
    file_type,       \* value returned by _detect_file_type ("none" before)
    text,            \* argument of extract_structured_data
    structured,      \* value returned by extract_structured_data
    page_num,        \* pages of the PDF handled so far by the page loop
    all_text,        \* list of page blocks collected by the page loop
    all_tables,      \* list of table records collected by the page loop
    extracted_data,  \* the dict extract_pdf_data / _extract_from_image builds
    outcome,         \* "none", "returned", or the message of the raised Exception
    exc,             \* type of the exception in flight inside a try ("none")
    cause,           \* history: what made the call fail ("none")
    tmpfiles,        \* names of the temporary files that exist on disk
    next_tmp,        \* number of temporary files created so far
    tmp_img_path,    \* local of _extract_from_image (<<>> while unbound)
    upload_filename, \* file.filename of the request being handled
    upload_content,  \* the uploaded file
    tmp_file,        \* tmp_file.name: the temporary file of the request
    tmp_file_path,   \* local of extract_pdf (<<>> while unbound)
    db,              \* rows of the extracted-data table, oldest first
    response,        \* what the request was answered with
    served           \* number of requests answered

detVars == <<file_path, disk_file, file_type>>
kvVars  == <<text, structured>>
pdfVars == <<page_num, all_text, all_tables>>
resVars == <<extracted_data, outcome, exc, cause>>
tmpVars == <<tmpfiles, next_tmp, tmp_img_path>>

upVars  == <<upload_filename, upload_content, tmp_file, tmp_file_path,
             db, response, served>>

vars == <<pc, detVars, kvVars, pdfVars, resVars, tmpVars, upVars>>

\* Values of the variables a call does not use.
IdleKv  == text = <<>> /\ structured = "none"
IdlePdf == page_num = 0 /\ all_text = <<>> /\ all_tables = <<>>
IdleRes == extracted_data = "none" /\ outcome = "none" /\ exc = "none" /\ cause = "none"
IdleTmp == tmpfiles = {} /\ next_tmp = 0 /\ tmp_img_path = <<>>
IdleUp  ==
    /\ upload_filename = <<>> /\ upload_content = "none"
    /\ tmp_file = <<>> /\ tmp_file_path = <<>>
    /\ db = <<>> /\ response = [status |-> "none"] /\ served = 0

---------------------------------------------------------------------------
(* Sequence helpers                                                        *)

\* s[:n] of Python: the first n elements, fewer when s is shorter.
Take(s, n) == SubSeq(s, 1, IF n < Len(s) THEN n ELSE Len(s))

\* s[n:] of Python with n counted from 0.
Drop(s, n) == SubSeq(s, n + 1, Len(s))

\* str.rfind(ch) + 1: the last position of ch in s, 0 when absent.
RFind(s, ch) ==
    LET hits == {i \in 1..Len(s) : s[i] = ch}
    IN  IF hits = {} THEN 0 ELSE CHOOSE i \in hits : \A j \in hits : j <= i

\* str.find(ch) + 1: the first position of ch in s, 0 when absent.
Find(s, ch) ==
    LET hits == {i \in 1..Len(s) : s[i] = ch}
    IN  IF hits = {} THEN 0 ELSE CHOOSE i \in hits : \A j \in hits : i <= j

Uppers == <<"A","B","C","D","E","F","G","H","I","J","K","L","M",
            "N","O","P","Q","R","S","T","U","V","W","X","Y","Z">>
Lowers == <<"a","b","c","d","e","f","g","h","i","j","k","l","m",
            "n","o","p","q","r","s","t","u","v","w","x","y","z">>

\* str.lower() on one character.
LowerChar(c) ==
    IF \E i \in 1..Len(Uppers) : Uppers[i] = c
    THEN Lowers[CHOOSE i \in 1..Len(Uppers) : Uppers[i] = c]
    ELSE c

\* A plausible slip: the extension is compared without .lower().
LowerKeepCase(s) == s

\* str.lower().
Lower(s) == [i \in 1..Len(s) |-> LowerChar(s[i])]

---------------------------------------------------------------------------
(* _detect_file_type                                                       *)

\* os.path.splitext(p)[1] on POSIX (genericpath._splitext): the suffix from
\* the last dot, when that dot lies after the last "/" and some character of
\* the file name before it is not a dot; otherwise the empty string.
SplitExt(p) ==
    LET sepIndex == RFind(p, "/")
        dotIndex == RFind(p, ".")
    IN  IF /\ dotIndex > sepIndex
           /\ \E i \in (sepIndex + 1)..(dotIndex - 1) : p[i] # "."
        THEN Drop(p, dotIndex - 1)
        ELSE <<>>

image_extensions ==
    { <<".", "j", "p", "g">>, <<".", "j", "p", "e", "g">>,
      <<".", "p", "n", "g">>, <<".", "g", "i", "f">>,
      <<".", "b", "m", "p">>, <<".", "t", "i", "f", "f">>,
      <<".", "h", "e", "i", "c">>, <<".", "h", "e", "i", "f">> }

\* b'%PDF'
PDF_MAGIC == <<37, 80, 68, 70>>
\* b'\x00\x00\x00\x24'
HEIC_MAGIC == <<0, 0, 0, 36>>
\* b'\x00\x00\x00\x20ftyp'
FTYP_MAGIC == <<0, 0, 0, 32, 102, 116, 121, 112>>

\* f.read(4)
HeaderReadLen == 4

\* A plausible slip: falling back to "image" instead of "pdf".
DefaultImage == "image"

\* The final `return "pdf"`, reached when nothing matched or open/read raised.
DefaultFileType == "pdf"

\* open(file_path, 'rb') succeeds only on an existing, permitted file.
CanOpen(f) == f.status = "ok"

DetectFileType(p, f) ==
    LET ext == Lower(SplitExt(p))
    IN  IF ext \in image_extensions THEN "image"
        ELSE IF CanOpen(f)
             THEN LET header == Take(f.bytes, HeaderReadLen)
                  IN  IF Take(header, 4) = PDF_MAGIC THEN "pdf"
                      ELSE IF \/ Take(header, 4) = HEIC_MAGIC
                              \/ Take(header, 8) = FTYP_MAGIC
                           THEN "image"
                           ELSE DefaultFileType
             ELSE DefaultFileType   \* bare except: pass

---------------------------------------------------------------------------
(* Inputs of the detector                                                  *)

Dirs ==
    { <<>>, <<"/", "t", "/">>, <<"u", ".", "p", "n", "g", "/">> }

Stems ==
    { <<>>, <<"a">>, <<".">>, <<"a", ".", "j", "p", "g">> }

Exts ==
    image_extensions \cup
    { <<>>, <<".">>, <<".", "p", "d", "f">>, <<".", "P", "D", "F">>,
      <<".", "P", "N", "G">>, <<".", "J", "p", "e", "G">>,
      <<".", "H", "E", "I", "C">>, <<".", "t", "i", "f">>,
      <<".", "p", "n", "g", "x">>, <<".", "t", "x", "t">> }

DetectPaths == { d \o s \o e : d \in Dirs, s \in Stems, e \in Exts } \ { <<>> }

\* Sample file contents; the detector's inputs are their prefixes.
SampleFiles ==
    { <<37, 80, 68, 70, 45, 49, 46, 55, 10, 37>>,         \* %PDF-1.7
      <<0, 0, 0, 36, 102, 116, 121, 112, 104, 101>>,      \* box of size 0x24
      <<0, 0, 0, 32, 102, 116, 121, 112, 105, 115>>,      \* box of size 0x20
      <<137, 80, 78, 71, 13, 10, 26, 10, 0, 0>>,          \* PNG
      <<37, 80, 68, 32, 0, 0, 0, 36, 0, 0>>,              \* neither
      <<80, 75, 3, 4, 20, 0, 0, 0, 8, 0>> }               \* zip

\* Longest file content the detector is given.
MaxFileLen == 9

DetectContents == { Take(s, n) : s \in SampleFiles, n \in 0..MaxFileLen }

\* A file that exists (readable or not) has some content; a missing one none.
DetectFiles ==
    [status : {"ok", "denied"}, bytes : DetectContents]
        \cup { [status |-> "missing", bytes |-> <<>>] }

InitDetect ==
    /\ pc = "detect"
    /\ file_path \in DetectPaths
    /\ disk_file \in DetectFiles
    /\ file_type = "none"
    /\ IdleKv /\ IdlePdf /\ IdleRes /\ IdleTmp /\ IdleUp

Detect ==
    /\ pc = "detect"
    /\ file_type' = DetectFileType(file_path, disk_file)
    /\ pc' = "detected"
    /\ UNCHANGED <<file_path, disk_file, kvVars, pdfVars, resVars, tmpVars>>
    /\ UNCHANGED upVars

NextDetect == Detect

SpecDetect == InitDetect /\ [][NextDetect]_vars

---------------------------------------------------------------------------
(* Claims about _detect_file_type                                          *)

StartsWith(s, prefix) ==
    Len(s) >= Len(prefix) /\ SubSeq(s, 1, Len(prefix)) = prefix

\* The extension of a path, stated without the code's scan: the shortest
\* suffix beginning with a dot, provided it holds no "/" and the file name
\* before it has a character other than a dot.
ExtensionOf(p) ==
    LET cands == { n \in 1..Len(p) :
                     /\ p[n] = "."
                     /\ \A i \in (n + 1)..Len(p) : p[i] # "." /\ p[i] # "/"
                     /\ \E i \in 1..(n - 1) :
                          /\ p[i] # "." /\ p[i] # "/"
                          /\ \A j \in i..(n - 1) : p[j] # "/" }
    IN  IF cands = {} THEN <<>>
        ELSE LET n == CHOOSE m \in cands : TRUE IN SubSeq(p, n, Len(p))

\* s and t are equal up to the case of ASCII letters.
SameIgnoringCase(s, t) ==
    /\ Len(s) = Len(t)
    /\ \A i \in 1..Len(s) :
         \/ s[i] = t[i]
         \/ \E k \in 1..Len(Uppers) :
              {s[i], t[i]} = {Uppers[k], Lowers[k]}

HasImageExtension(p) ==
    \E e \in image_extensions : SameIgnoringCase(ExtensionOf(p), e)

\* C1 (as stated): a file whose first 4 bytes are %PDF is classified "pdf"
\* whatever its extension, image extensions included.
C1_AnyExtension ==
    (pc = "detected" /\ StartsWith(disk_file.bytes, PDF_MAGIC))
        => file_type = "pdf"

\* C1 (amended): a file whose first 4 bytes are %PDF and whose extension is
\* not a supported image extension is classified "pdf".
C1_PdfMagicWithoutImageExtension ==
    (/\ pc = "detected"
     /\ StartsWith(disk_file.bytes, PDF_MAGIC)
     /\ ~HasImageExtension(file_path))
        => file_type = "pdf"

C1_Witness ==
    /\ pc = "detected"
    /\ StartsWith(disk_file.bytes, PDF_MAGIC)
    /\ disk_file.status = "ok"
    /\ file_path = <<"/", "t", "/", "a", ".", "t", "x", "t">>
    /\ file_type = "pdf"

\* C2: a path with a supported image extension (any letter case) is
\* classified "image" whatever the bytes, readable or not, empty or not.
C2_ImageExtensionWins ==
    (pc = "detected" /\ HasImageExtension(file_path))
        => file_type = "image"

C2_Witness ==
    /\ pc = "detected"
    /\ file_path = <<"a", ".", "J", "p", "e", "G">>
    /\ disk_file.status = "missing"
    /\ file_type = "image"

\* C3: without an image extension, the 4-byte signature 00 00 00 24 or the
\* 8-byte pattern 00 00 00 20 'ftyp' at the start of a readable file gives
\* "image", %PDF gives "pdf", and everything else gives "pdf".
C3_SniffedType ==
    (pc = "detected" /\ ~HasImageExtension(file_path))
        => file_type =
             IF /\ disk_file.status = "ok"
                /\ \/ StartsWith(disk_file.bytes, HEIC_MAGIC)
                   \/ StartsWith(disk_file.bytes, FTYP_MAGIC)
             THEN "image"
             ELSE "pdf"

---------------------------------------------------------------------------
(* extract_structured_data                                                 *)

\* Characters str.strip() removes (the ASCII ones that occur in the inputs).
Whitespace == {" ", "\t", "\n", "\r", "\f"}

\* text.split("\n"): the pieces between newlines, empty pieces kept.
RECURSIVE SplitLines(_)
SplitLines(s) ==
    LET i == Find(s, "\n")
    IN  IF i = 0 THEN <<s>>
        ELSE <<Take(s, i - 1)>> \o SplitLines(Drop(s, i))

RECURSIVE LStrip(_)
LStrip(s) ==
    IF s # <<>> /\ Head(s) \in Whitespace THEN LStrip(Tail(s)) ELSE s

RECURSIVE RStrip(_)
RStrip(s) ==
    IF s # <<>> /\ s[Len(s)] \in Whitespace
    THEN RStrip(SubSeq(s, 1, Len(s) - 1))
    ELSE s

\* str.strip()
Strip(s) == RStrip(LStrip(s))

\* A plausible slip: line.rsplit(":", 1), cutting at the last colon.
SplitLastColon(line) ==
    LET i == RFind(line, ":")
    IN  IF i = 0 THEN <<line>> ELSE <<Take(line, i - 1), Drop(line, i)>>

\* line.split(":", 1): cut at the first colon, at most two parts.
SplitFirstColon(line) ==
    LET i == Find(line, ":")
    IN  IF i = 0 THEN <<line>> ELSE <<Take(line, i - 1), Drop(line, i)>>

\* A dict is the sequence of its <<key, value>> items in insertion order.
DictHas(d, k) == \E n \in 1..Len(d) : d[n][1] = k

\* d[k] = v: overwrite in place when k is present, append otherwise.
DictSet(d, k, v) ==
    IF DictHas(d, k)
    THEN [n \in 1..Len(d) |-> IF d[n][1] = k THEN <<k, v>> ELSE d[n]]
    ELSE Append(d, <<k, v>>)

\* The body of `for line in lines` for one line.
ScanLine(d, line) ==
    IF Find(line, ":") # 0
    THEN LET parts == SplitFirstColon(line)
         IN  IF Len(parts) = 2
             THEN LET key   == Strip(parts[1])
                      value == Strip(parts[2])
                  IN  IF key # <<>> /\ value # <<>>
                      THEN DictSet(d, key, value)
                      ELSE d
             ELSE d
    ELSE d

\* The loop over the lines, first to last, starting from the dict d.
RECURSIVE ScanLines(_, _)
ScanLines(d, lines) ==
    IF lines = <<>> THEN d
    ELSE ScanLines(ScanLine(d, Head(lines)), Tail(lines))

\* text.split("\n")[:50]
SampleLineCount == 50

ExtractStructuredData(t, tables) ==
    [ key_value_pairs |-> ScanLines(<<>>, SplitLines(t)),
      tables_count    |-> Len(tables),
      text_length     |-> Len(t),
      lines           |-> Take(SplitLines(t), SampleLineCount) ]

---------------------------------------------------------------------------
(* Inputs of extract_structured_data                                       *)

LinePool ==
    { <<>>,
      <<"n">>,
      <<":">>,
      <<"a", ":">>,
      <<":", "1">>,
      <<" ", ":", " ">>,
      <<"a", ":", "1">>,
      <<"a", ":", " ", "2", "\r">>,
      <<" ", "a", "\t", ":", "h", ":", "8">>,
      <<"b", ":", ":", "1">>,
      <<"b", " ", "c", ":", "x", " ", "y">>,
      <<"1", ":", "a">> }

\* Most lines in a text given to extract_structured_data.
MaxLines == 3

RECURSIVE JoinWith(_, _)
\* sep.join(parts)
JoinWith(sep, parts) ==
    IF parts = <<>> THEN <<>>
    ELSE IF Len(parts) = 1 THEN parts[1]
    ELSE parts[1] \o sep \o JoinWith(sep, Tail(parts))

KvTexts ==
    UNION { { JoinWith(<<"\n">>, ls) : ls \in [1..n -> LinePool] } : n \in 1..MaxLines }

KvTables == { <<>>, <<"t1">>, <<"t1", "t2">> }

InitKv ==
    /\ pc = "structure"
    /\ text \in KvTexts
    /\ structured = "none"
    /\ file_path = <<>>
    /\ disk_file = "none"
    /\ file_type = "none"
    /\ IdlePdf /\ IdleRes /\ IdleTmp /\ IdleUp

Structure ==
    /\ pc = "structure"
    /\ \E tables \in KvTables :
         structured' = ExtractStructuredData(text, tables)
    /\ pc' = "structured"
    /\ UNCHANGED <<detVars, text, pdfVars, resVars, tmpVars>>
    /\ UNCHANGED upVars

NextKv == Structure

SpecKv == InitKv /\ [][NextKv]_vars

---------------------------------------------------------------------------
(* Claims about extract_structured_data                                    *)

\* The reference of C7, stated by positions rather than by scanning.

\* Positions of the newlines of t, and the k-th of them in ascending order
\* (0 before the first line, Len(t) + 1 after the last).
NewlinesOf(t) == { i \in 1..Len(t) : t[i] = "\n" }

NthNewline(t, k) ==
    IF k = 0 THEN 0
    ELSE IF k > Cardinality(NewlinesOf(t)) THEN Len(t) + 1
    ELSE CHOOSE p \in NewlinesOf(t) :
           Cardinality({ q \in NewlinesOf(t) : q < p }) = k - 1

RefLineCount(t) == Cardinality(NewlinesOf(t)) + 1

RefLine(t, k) == SubSeq(t, NthNewline(t, k - 1) + 1, NthNewline(t, k) - 1)

\* s without its leading and trailing whitespace.
RefTrim(s) ==
    LET solid == { i \in 1..Len(s) : s[i] \notin Whitespace }
    IN  IF solid = {} THEN <<>>
        ELSE SubSeq(s, CHOOSE i \in solid : \A j \in solid : i <= j,
                       CHOOSE i \in solid : \A j \in solid : j <= i)

RefHasColon(line) == \E i \in 1..Len(line) : line[i] = ":"

RefFirstColon(line) ==
    CHOOSE i \in 1..Len(line) :
        line[i] = ":" /\ \A j \in 1..(i - 1) : line[j] # ":"

RefKey(line) == RefTrim(SubSeq(line, 1, RefFirstColon(line) - 1))

RefValue(line) == RefTrim(SubSeq(line, RefFirstColon(line) + 1, Len(line)))

\* The line contributes an entry.
RefYields(line) ==
    RefHasColon(line) /\ RefKey(line) # <<>> /\ RefValue(line) # <<>>

---------------------------------------------------------------------------
(* extract_pdf_data: dispatch and the native PDF path                      *)

Digits == <<"0", "1", "2", "3", "4", "5", "6", "7", "8", "9">>

\* str(n) for n >= 0, as the f-string formats page_num.
RECURSIVE Decimal(_)
Decimal(n) ==
    IF n < 10 THEN <<Digits[n + 1]>>
    ELSE Decimal(n \div 10) \o <<Digits[(n % 10) + 1]>>

\* dict.get(key, default) on a dict kept as a sequence of items.
DictGet(d, k, default) ==
    IF DictHas(d, k)
    THEN d[CHOOSE n \in 1..Len(d) : d[n][1] = k][2]
    ELSE default

\* The initial extracted_data of extract_pdf_data.
PdfInitial ==
    [ raw_text |-> <<>>, tables |-> <<>>, metadata |-> <<>>,
      pages |-> 0, structured_data |-> <<>> ]

\* The metadata dict built from pdf.metadata.
PdfMetadata(meta) ==
    << <<"title",             DictGet(meta, "Title", "")>>,
       <<"author",            DictGet(meta, "Author", "")>>,
       <<"subject",           DictGet(meta, "Subject", "")>>,
       <<"creator",           DictGet(meta, "Creator", "")>>,
       <<"producer",          DictGet(meta, "Producer", "")>>,
       <<"creation_date",     DictGet(meta, "CreationDate", "")>>,
       <<"modification_date", DictGet(meta, "ModDate", "")>> >>

\* A plausible slip: the marker is appended for every page.
PageHasTextAlways(page_text) == TRUE

\* `if page_text:` holds for a non-empty string (None and "" both fail it).
PageHasText(page_text) == page_text # <<>>

\* f"--- Page {page_num} ---\n{page_text}"
PageBlock(n, page_text) ==
    <<"-", "-", "-", " ", "P", "a", "g", "e", " ">> \o Decimal(n)
        \o <<" ", "-", "-", "-", "\n">> \o page_text

\* A plausible slip: the 0-based enumerate index is stored as it is.
TableNumberZeroBased(table_num) == table_num

\* "table_number": table_num + 1, table_num counted from 0 by enumerate.
TableNumber(table_num) == table_num + 1

\* The records appended for the tables of page n, in the order found.
TableRecords(n, tables) ==
    [ t \in 1..Len(tables) |->
        [ page |-> n, table_number |-> TableNumber(t - 1), data |-> tables[t] ] ]

\* pdfplumber.open succeeds on a readable file that parses as a PDF.
CanParsePdf(f) == f.status = "ok" /\ f.pdf.ok

PdfErrorMessage == "Error extracting PDF data"

\* os.path.basename(p)
Basename(p) == Drop(p, RFind(p, "/"))

\* The initial extracted_data of _extract_from_image.
ImageInitial(p) ==
    [ raw_text |-> <<>>, tables |-> <<>>,
      metadata |-> << <<"file_type", "image">>, <<"filename", Basename(p)>> >>,
      pages |-> 1, structured_data |-> <<>> ]

\* extract_pdf_data up to the dispatch on the detected type.
ExtractStart ==
    /\ pc = "extract"
    /\ file_type' = DetectFileType(file_path, disk_file)
    /\ IF file_type' = "image"
       THEN extracted_data' = ImageInitial(file_path) /\ pc' = "ocr_import"
       ELSE extracted_data' = PdfInitial /\ pc' = "pdf_open"
    /\ UNCHANGED <<file_path, disk_file, kvVars, pdfVars, outcome, exc, cause, tmpVars>>
    /\ UNCHANGED upVars

\* with pdfplumber.open(pdf_path): metadata and page count. A failure is
\* caught by `except Exception` and re-raised; nothing is returned.
PdfOpen ==
    /\ pc = "pdf_open"
    /\ IF CanParsePdf(disk_file)
       THEN /\ extracted_data' =
                 [extracted_data EXCEPT
                     !.metadata = PdfMetadata(disk_file.pdf.metadata),
                     !.pages = Len(disk_file.pdf.pages)]
            /\ page_num' = 0 /\ all_text' = <<>> /\ all_tables' = <<>>
            /\ pc' = "pdf_pages"
            /\ UNCHANGED <<outcome, cause>>
       ELSE /\ cause' = "pdf_open_failed"
            /\ outcome' = PdfErrorMessage
            /\ pc' = "raised"
            /\ UNCHANGED <<extracted_data, pdfVars>>
    /\ UNCHANGED <<detVars, kvVars, exc, tmpVars>>
    /\ UNCHANGED upVars

\* One iteration of `for page_num, page in enumerate(pdf.pages, start=1)`.
PdfPage ==
    /\ pc = "pdf_pages"
    /\ page_num < Len(disk_file.pdf.pages)
    /\ LET n    == page_num + 1
           page == disk_file.pdf.pages[n]
       IN  /\ page_num' = n
           /\ all_text' = IF PageHasText(page.text)
                          THEN Append(all_text, PageBlock(n, page.text))
                          ELSE all_text
           /\ all_tables' = IF page.tables # <<>>
                            THEN all_tables \o TableRecords(n, page.tables)
                            ELSE all_tables
    /\ UNCHANGED <<pc, detVars, kvVars, resVars, tmpVars>>
    /\ UNCHANGED upVars

\* page.extract_text() or page.extract_tables() raises on a damaged page.
PdfPageRaises ==
    /\ pc = "pdf_pages"
    /\ page_num < Len(disk_file.pdf.pages)
    /\ cause' = "pdf_page_failed"
    /\ outcome' = PdfErrorMessage
    /\ pc' = "raised"
    /\ UNCHANGED <<detVars, kvVars, pdfVars, extracted_data, exc, tmpVars>>
    /\ UNCHANGED upVars

\* After the loop: join the blocks, attach tables and structured data, return.
PdfFinish ==
    /\ pc = "pdf_pages"
    /\ page_num = Len(disk_file.pdf.pages)
    /\ LET raw == JoinWith(<<"\n", "\n">>, all_text)
       IN  extracted_data' =
             [extracted_data EXCEPT
                 !.raw_text = raw,
                 !.tables = all_tables,
                 !.structured_data = ExtractStructuredData(raw, all_tables)]
    /\ outcome' = "returned"
    /\ pc' = "returned"
    /\ UNCHANGED <<detVars, kvVars, pdfVars, exc, cause, tmpVars>>
    /\ UNCHANGED upVars

---------------------------------------------------------------------------
(* _extract_from_image: the OCR path                                       *)

\* The except clauses of _extract_from_image, tried in the order written.
\* PermissionError and UnidentifiedImageError are OSErrors that only the
\* last clause matches; FileNotFoundError matches the first, wherever in
\* the try block it was raised.
OcrErrorMessage(e) ==
    IF e = "FileNotFoundError" THEN "Tesseract OCR not found"
    ELSE IF e = "ImportError" THEN "PIL/Pillow not available"
    ELSE IF e = "CalledProcessError" THEN "Tesseract OCR error"
    ELSE "Error extracting from image"

\* `from PIL import Image` raises ImportError when Pillow is not installed.
OcrImport ==
    /\ pc = "ocr_import"
    /\ \E installed \in BOOLEAN :
         IF installed
         THEN pc' = "ocr_open" /\ UNCHANGED <<exc, cause>>
         ELSE exc' = "ImportError" /\ cause' = "pil_missing" /\ pc' = "ocr_except"
    /\ UNCHANGED <<detVars, kvVars, pdfVars, extracted_data, outcome, tmpVars>>
    /\ UNCHANGED upVars

\* Image.open(image_path), then img.convert('RGB') unless the mode is RGB.
\* Image.open reads the header only; convert decodes the pixel data and
\* raises OSError on a truncated file.
OcrOpen ==
    /\ pc = "ocr_open"
    /\ IF disk_file.status = "missing"
       THEN exc' = "FileNotFoundError" /\ cause' = "image_missing" /\ pc' = "ocr_except"
       ELSE IF disk_file.status = "denied"
       THEN exc' = "PermissionError" /\ cause' = "image_unreadable" /\ pc' = "ocr_except"
       ELSE IF ~disk_file.img.ok
       THEN exc' = "UnidentifiedImageError" /\ cause' = "image_undecodable"
            /\ pc' = "ocr_except"
       ELSE IF disk_file.img.mode # "RGB" /\ ~disk_file.img.complete
       THEN exc' = "OSError" /\ cause' = "image_undecodable" /\ pc' = "ocr_except"
       ELSE pc' = "ocr_save" /\ UNCHANGED <<exc, cause>>
    /\ UNCHANGED <<detVars, kvVars, pdfVars, extracted_data, outcome, tmpVars>>
    /\ UNCHANGED upVars

\* Name of the n-th temporary file, with the suffix asked for.
TmpName(n, suffix) == <<"/", "t", "/">> \o Decimal(n) \o suffix

PngSuffix == <<".", "p", "n", "g">>

\* with tempfile.NamedTemporaryFile(suffix='.png', delete=False) as tmp_img:
\* the file is created, img.save writes into it, tmp_img_path is bound. When
\* img.save raises (pixel data of an RGB image that cannot be decoded, or the
\* disk is full) the with block closes the file, which delete=False keeps,
\* and the inner try/finally has not been entered.
OcrSave ==
    /\ pc = "ocr_save"
    /\ LET name == TmpName(next_tmp + 1, PngSuffix)
       IN  /\ tmpfiles' = tmpfiles \cup {name}
           /\ next_tmp' = next_tmp + 1
           /\ \E disk_ok \in BOOLEAN :
                IF disk_file.img.complete /\ disk_ok
                THEN /\ tmp_img_path' = name
                     /\ pc' = "ocr_run"
                     /\ UNCHANGED <<exc, cause>>
                ELSE /\ exc' = "OSError"
                     /\ cause' = "save_failed"
                     /\ pc' = "ocr_except"
                     /\ UNCHANGED tmp_img_path
    /\ UNCHANGED <<detVars, kvVars, pdfVars, extracted_data, outcome>>
    /\ UNCHANGED upVars

\* What tesseract prints for an image.
OcrOutputs ==
    { <<>>, <<"H", "i", "\n">>, <<"k", ":", " ", "v", "\n", "x", "\n">> }

\* subprocess.run(['tesseract', ...], check=True) inside try/finally: the
\* executable is missing (FileNotFoundError), exits non-zero
\* (CalledProcessError) or prints the text. The finally clause removes the
\* temporary file in all three cases.
OcrRun ==
    /\ pc = "ocr_run"
    /\ \/ /\ exc' = "FileNotFoundError" /\ cause' = "ocr_missing"
          /\ pc' = "ocr_except"
          /\ UNCHANGED extracted_data
       \/ /\ exc' = "CalledProcessError" /\ cause' = "ocr_nonzero"
          /\ pc' = "ocr_except"
          /\ UNCHANGED extracted_data
       \/ /\ \E stdout \in OcrOutputs :
               extracted_data' = [extracted_data EXCEPT !.raw_text = stdout]
          /\ pc' = "ocr_structure"
          /\ UNCHANGED <<exc, cause>>
    /\ tmpfiles' = tmpfiles \ {tmp_img_path}
    /\ UNCHANGED <<detVars, kvVars, pdfVars, outcome, next_tmp, tmp_img_path>>
    /\ UNCHANGED upVars

\* extract_structured_data on the OCR text, then return.
OcrStructure ==
    /\ pc = "ocr_structure"
    /\ extracted_data' =
         [extracted_data EXCEPT
             !.structured_data =
                 ExtractStructuredData(extracted_data.raw_text, extracted_data.tables)]
    /\ outcome' = "returned"
    /\ pc' = "returned"
    /\ UNCHANGED <<detVars, kvVars, pdfVars, exc, cause, tmpVars>>
    /\ UNCHANGED upVars

\* The matching except clause raises Exception(message); nothing is returned.
OcrExcept ==
    /\ pc = "ocr_except"
    /\ outcome' = OcrErrorMessage(exc)
    /\ exc' = "none"
    /\ pc' = "raised"
    /\ UNCHANGED <<detVars, kvVars, pdfVars, extracted_data, cause, tmpVars>>
    /\ UNCHANGED upVars

---------------------------------------------------------------------------
(* Inputs of extract_pdf_data                                              *)

Grid2x2 == << <<"a", "b">>, <<"c", "d">> >>
GridRagged == << <<"x">>, <<>> >>

PageTexts ==
    { <<>>, <<"H", "i">>, <<"k", ":", " ", "v", "\n", "x">> }

PageTables == { <<>>, <<Grid2x2>>, <<GridRagged, Grid2x2>> }

PdfPages == [text : PageTexts, tables : PageTables]

PdfMetas == { <<>>, << <<"Title", "T">>, <<"ModDate", "D">> >> }

\* Most pages in a PDF given to extract_pdf_data.
MaxPages == 3

PdfDocs ==
    UNION { [ok : {TRUE}, metadata : PdfMetas, pages : [1..n -> PdfPages]]
            : n \in 0..MaxPages }

NoPdf == [ok |-> FALSE, metadata |-> <<>>, pages |-> <<>>]
NoImg == [ok |-> FALSE, mode |-> "none", complete |-> FALSE]

PdfBytes  == <<37, 80, 68, 70, 45, 49, 46, 55>>
PngBytes  == <<137, 80, 78, 71, 13, 10, 26, 10>>
HeicBytes == <<0, 0, 0, 36, 102, 116, 121, 112>>
FtypBytes == <<0, 0, 0, 32, 102, 116, 121, 112>>
JunkBytes == <<80, 75, 3, 4>>

PdfFile(doc) == [status |-> "ok", bytes |-> PdfBytes, pdf |-> doc, img |-> NoImg]

ImageFiles ==
    { [status |-> "ok", bytes |-> b, pdf |-> NoPdf,
       img |-> [ok |-> TRUE, mode |-> m, complete |-> c]]
      : b \in {PngBytes, HeicBytes, FtypBytes}, m \in {"RGB", "RGBA"}, c \in BOOLEAN }

OnePageDoc ==
    [ok |-> TRUE, metadata |-> <<>>,
     pages |-> << [text |-> <<"H", "i">>, tables |-> <<Grid2x2>>] >>]

OtherFiles ==
    ImageFiles \cup
    { [status |-> "missing", bytes |-> <<>>, pdf |-> NoPdf, img |-> NoImg],
      [status |-> "denied", bytes |-> PngBytes, pdf |-> NoPdf, img |-> NoImg],
      [status |-> "ok", bytes |-> JunkBytes, pdf |-> NoPdf, img |-> NoImg],
      [status |-> "ok", bytes |-> <<>>, pdf |-> NoPdf, img |-> NoImg],
      [status |-> "ok", bytes |-> PdfBytes, pdf |-> NoPdf, img |-> NoImg],
      PdfFile(OnePageDoc) }

PdfPath == <<"/", "u", "/", "d", ".", "p", "d", "f">>

OtherPaths ==
    { PdfPath,
      <<"/", "u", "/", "s", ".", "p", "n", "g">>,
      <<"p", ".", "H", "E", "I", "C">>,
      <<"/", "u", "/", "x">> }

ExtractInputs ==
    { [path |-> PdfPath, file |-> PdfFile(d)] : d \in PdfDocs }
        \cup [path : OtherPaths, file : OtherFiles]

InitExtract ==
    /\ pc = "extract"
    /\ \E in \in ExtractInputs : file_path = in.path /\ disk_file = in.file
    /\ file_type = "none"
    /\ IdleKv /\ IdlePdf /\ IdleRes /\ IdleTmp /\ IdleUp

NextExtract ==
    \/ ExtractStart
    \/ PdfOpen \/ PdfPage \/ PdfPageRaises \/ PdfFinish
    \/ OcrImport \/ OcrOpen \/ OcrSave \/ OcrRun \/ OcrStructure \/ OcrExcept

SpecExtract == InitExtract /\ [][NextExtract]_vars

---------------------------------------------------------------------------
(* Claims about extract_pdf_data                                           *)

\* The call has ended, by returning or by raising.
Ended == pc \in {"returned", "raised"}

\* C4: on the image path the temporary PNG no longer exists once the call
\* has returned or raised, whatever the exit path.
C4_TempPngRemoved ==
    (Ended /\ file_type = "image") => tmpfiles = {}

NotFoundMessage == "Tesseract OCR not found"

\* C5: on the image path a missing OCR executable ends in the
\* executable-not-found failure with nothing returned, and a failure caused
\* by the image file, by the missing imaging library or by a non-zero OCR
\* exit is raised as some other failure.
C5_NotFoundOnlyWhenExecutableMissing ==
    (Ended /\ file_type = "image") =>
        /\ cause = "ocr_missing" => (pc = "raised" /\ outcome = NotFoundMessage)
        /\ cause \in {"image_missing", "image_unreadable", "image_undecodable",
                      "pil_missing", "ocr_nonzero"}
              => (pc = "raised" /\ outcome # NotFoundMessage)

\* The pages of the PDF given to the call.
InputPages == disk_file.pdf.pages

NonEmptyPages == { k \in 1..Len(InputPages) : InputPages[k].text # <<>> }

\* The block of page k as C8 words it, for the page numbers of one digit.
RefBlock(k) ==
    <<"-", "-", "-", " ", "P", "a", "g", "e", " ",
      <<"1", "2", "3", "4", "5", "6", "7", "8", "9">>[k],
      " ", "-", "-", "-", "\n">> \o InputPages[k].text

\* Where the block of page k starts in raw_text (0-based): after the blocks
\* of the earlier non-empty pages and the two newlines that follow each.
RECURSIVE RefBlockOffset(_)
RefBlockOffset(k) ==
    IF k <= 1 THEN 0
    ELSE RefBlockOffset(k - 1)
           + (IF (k - 1) \in NonEmptyPages THEN Len(RefBlock(k - 1)) + 2 ELSE 0)

\* C8: pages is the page count N, and raw_text is made of the blocks
\* '--- Page k ---' + newline + text of exactly the pages with non-empty
\* text, in ascending order, two newlines between consecutive blocks.
C8_PagesAndRawText ==
    (pc = "returned" /\ file_type = "pdf") =>
        LET raw == extracted_data.raw_text
            N   == Len(InputPages)
        IN  /\ extracted_data.pages = N
            /\ Len(raw) = IF NonEmptyPages = {} THEN 0
                          ELSE RefBlockOffset(N + 1) - 2
            /\ \A k \in NonEmptyPages :
                 /\ SubSeq(raw, RefBlockOffset(k) + 1,
                                RefBlockOffset(k) + Len(RefBlock(k))) = RefBlock(k)
                 /\ (\E j \in NonEmptyPages : j < k)
                      => SubSeq(raw, RefBlockOffset(k) - 1, RefBlockOffset(k))
                           = <<"\n", "\n">>

\* A three-page PDF whose middle page has no text.
C8_Witness ==
    /\ pc = "returned" /\ file_type = "pdf"
    /\ Len(InputPages) = 3
    /\ NonEmptyPages = {1, 3}
    /\ extracted_data.pages = 3
    /\ extracted_data.raw_text =
         <<"-", "-", "-", " ", "P", "a", "g", "e", " ", "1", " ", "-", "-", "-",
           "\n", "H", "i", "\n", "\n",
           "-", "-", "-", " ", "P", "a", "g", "e", " ", "3", " ", "-", "-", "-",
           "\n", "H", "i">>

\* Number of tables on the pages before page p.
RECURSIVE RefTableOffset(_)
RefTableOffset(p) ==
    IF p <= 1 THEN 0
    ELSE RefTableOffset(p - 1) + Len(InputPages[p - 1].tables)

\* C9: tables holds one record per table of every page, page after page and
\* in the order found on the page, each with its 1-based page number and a
\* table_number counting from 1 on every page; tables_count is their number.
C9_TableRecords ==
    (pc = "returned" /\ file_type = "pdf") =>
        LET tabs == extracted_data.tables
            N    == Len(InputPages)
        IN  /\ Len(tabs) = RefTableOffset(N + 1)
            /\ \A p \in 1..N :
                 \A t \in 1..Len(InputPages[p].tables) :
                    tabs[RefTableOffset(p) + t] =
                        [ page |-> p, table_number |-> t,
                          data |-> InputPages[p].tables[t] ]
            /\ extracted_data.structured_data.tables_count = Len(tabs)

\* Two pages with one 2x2 table each, then a page with two tables.
C9_Witness ==
    /\ pc = "returned" /\ file_type = "pdf"
    /\ Len(InputPages) = 3
    /\ InputPages[1].tables = <<Grid2x2>>
    /\ InputPages[2].tables = <<Grid2x2>>
    /\ InputPages[3].tables = <<GridRagged, Grid2x2>>
    /\ extracted_data.tables =
         << [page |-> 1, table_number |-> 1, data |-> Grid2x2],
            [page |-> 2, table_number |-> 1, data |-> Grid2x2],
            [page |-> 3, table_number |-> 1, data |-> GridRagged],
            [page |-> 3, table_number |-> 2, data |-> Grid2x2] >>
    /\ extracted_data.structured_data.tables_count = 4

---------------------------------------------------------------------------
(* POST /extract: the upload handler extract_pdf                           *)

\* str.endswith(suffix)
EndsWith(s, suffix) ==
    Len(s) >= Len(suffix) /\ SubSeq(s, Len(s) - Len(suffix) + 1, Len(s)) = suffix

PdfSuffix == <<".", "p", "d", "f">>

\* The check that must pass for the upload to be processed.
IsAcceptedName(filename) == EndsWith(Lower(filename), PdfSuffix)

UploadNames ==
    { <<"a", ".", "p", "d", "f">>, <<"B", ".", "P", "D", "F">>,
      <<"s", ".", "p", "n", "g">>, <<"s", ".", "H", "E", "I", "C">>,
      <<"n", ".", "t", "x", "t">> }

UploadContents ==
    { PdfFile(OnePageDoc),
      [status |-> "ok", bytes |-> HeicBytes, pdf |-> NoPdf,
       img |-> [ok |-> TRUE, mode |-> "RGB", complete |-> TRUE]],
      [status |-> "ok", bytes |-> PngBytes, pdf |-> NoPdf,
       img |-> [ok |-> TRUE, mode |-> "RGBA", complete |-> TRUE]],
      [status |-> "ok", bytes |-> JunkBytes, pdf |-> NoPdf, img |-> NoImg] }

\* Most requests served in one run.
MaxUploads == 2

\* What another reader finds at the temporary path while tmp_file is still
\* open: content that fitted the writer's buffer has not reached the disk,
\* and the file is still empty.
Unflushed == [status |-> "ok", bytes |-> <<>>, pdf |-> NoPdf, img |-> NoImg]

\* Primary key given to a new row: one more than the rows stored.
NextId(rows) == Len(rows) + 1

\* The row built from the upload and its extraction.
DbRecord(rows, filename, data) ==
    [ id |-> NextId(rows), filename |-> filename,
      raw_text |-> data.raw_text,
      extracted_data |-> data.structured_data,
      pdf_metadata |-> data.metadata ]

\* The JSON returned on success.
SuccessResponse(row, data) ==
    [ status |-> "200", id |-> row.id, filename |-> row.filename,
      pages |-> data.pages, tables_count |-> Len(data.tables),
      text_length |-> Len(data.raw_text) ]

\* A request arrives. A name that does not end in .pdf is answered 400 before
\* anything is created; otherwise the with statement creates the temporary
\* file. The locals of the previous request are gone.
ReceiveUpload ==
    /\ pc \in {"idle", "responded"}
    /\ served < MaxUploads
    /\ \E name \in UploadNames, content \in UploadContents :
         /\ upload_filename' = name
         /\ upload_content' = content
         /\ IF ~IsAcceptedName(name)
            THEN /\ response' = [status |-> "400", detail |-> "File must be a PDF"]
                 /\ served' = served + 1
                 /\ pc' = "responded"
                 /\ tmp_file' = <<>>
                 /\ UNCHANGED <<tmpfiles, next_tmp>>
            ELSE /\ response' = [status |-> "none"]
                 /\ tmp_file' = TmpName(next_tmp + 1, PdfSuffix)
                 /\ tmpfiles' = tmpfiles \cup {TmpName(next_tmp + 1, PdfSuffix)}
                 /\ next_tmp' = next_tmp + 1
                 /\ pc' = "up_write"
                 /\ UNCHANGED served
    /\ tmp_file_path' = <<>>
    /\ tmp_img_path' = <<>>
    /\ file_path' = <<>> /\ disk_file' = "none" /\ file_type' = "none"
    /\ page_num' = 0 /\ all_text' = <<>> /\ all_tables' = <<>>
    /\ extracted_data' = "none" /\ outcome' = "none" /\ exc' = "none"
    /\ cause' = "none"
    /\ UNCHANGED <<kvVars, db>>

\* content = await file.read(); tmp_file.write(content);
\* tmp_file_path = tmp_file.name; then extract_pdf_data(tmp_file_path) is
\* entered. Either of the first two may raise, and then tmp_file_path stays
\* unbound.
UploadWrite ==
    /\ pc = "up_write"
    /\ \/ /\ cause' = "read_failed" /\ pc' = "up_except"
          /\ UNCHANGED <<tmp_file_path, file_path, disk_file>>
       \/ /\ cause' = "write_failed" /\ pc' = "up_except"
          /\ UNCHANGED <<tmp_file_path, file_path, disk_file>>
       \/ /\ tmp_file_path' = tmp_file
          /\ file_path' = tmp_file
          /\ \E flushed \in BOOLEAN :
               disk_file' = IF flushed THEN upload_content ELSE Unflushed
          /\ pc' = "extract"
          /\ UNCHANGED cause
    /\ UNCHANGED <<file_type, kvVars, pdfVars, extracted_data, outcome, exc,
                   tmpVars, upload_filename, upload_content, tmp_file, db,
                   response, served>>

\* extract_pdf_data returned: db.add, db.commit, db.refresh and the return
\* statement. A failing commit raises into the except clause.
UploadStore ==
    /\ pc = "returned"
    /\ \/ /\ cause' = "commit_failed" /\ pc' = "up_except"
          /\ UNCHANGED <<db, response>>
       \/ /\ db' = Append(db, DbRecord(db, upload_filename, extracted_data))
          /\ response' = SuccessResponse(DbRecord(db, upload_filename, extracted_data),
                                         extracted_data)
          /\ pc' = "up_finally"
          /\ UNCHANGED cause
    /\ UNCHANGED <<detVars, kvVars, pdfVars, extracted_data, outcome, exc,
                   tmpVars, upload_filename, upload_content, tmp_file,
                   tmp_file_path, served>>

\* except Exception: raise HTTPException(500), for a failure of the handler's
\* own steps or an Exception raised by extract_pdf_data.
UploadExcept ==
    /\ pc \in {"up_except", "raised"}
    /\ response' = [status |-> "500", detail |-> "Error processing PDF"]
    /\ pc' = "up_finally"
    /\ UNCHANGED <<detVars, kvVars, pdfVars, resVars, tmpVars, upload_filename,
                   upload_content, tmp_file, tmp_file_path, db, served>>

\* finally: if os.path.exists(tmp_file_path): os.unlink(tmp_file_path).
\* Reading the unbound local raises UnboundLocalError, which replaces the
\* HTTPException in flight and leaves the file where it is.
UploadFinally ==
    /\ pc = "up_finally"
    /\ IF tmp_file_path = <<>>
       THEN /\ response' = [status |-> "unhandled", detail |-> "UnboundLocalError"]
            /\ UNCHANGED tmpfiles
       ELSE /\ tmpfiles' = tmpfiles \ {tmp_file_path}
            /\ UNCHANGED response
    /\ served' = served + 1
    /\ pc' = "responded"
    /\ UNCHANGED <<detVars, kvVars, pdfVars, resVars, next_tmp, tmp_img_path,
                   upload_filename, upload_content, tmp_file, tmp_file_path, db>>

InitUpload ==
    /\ pc = "idle"
    /\ file_path = <<>> /\ disk_file = "none" /\ file_type = "none"
    /\ IdleKv /\ IdlePdf /\ IdleRes /\ IdleTmp /\ IdleUp

NextUpload ==
    \/ ReceiveUpload \/ UploadWrite \/ UploadStore \/ UploadExcept \/ UploadFinally
    \/ ExtractStart
    \/ PdfOpen \/ PdfPage \/ PdfPageRaises \/ PdfFinish
    \/ OcrImport \/ OcrOpen \/ OcrSave \/ OcrRun \/ OcrStructure \/ OcrExcept

SpecUpload == InitUpload /\ [][NextUpload]_vars

---------------------------------------------------------------------------
(* Claims about the upload handler                                         *)

\* C6: an upload whose file name has a supported image extension is not
\* turned away: it is extracted and, when nothing fails on the way, answered
\* with the id of a row that now exists.
C6_ImageUploadAccepted ==
    (pc = "responded" /\ HasImageExtension(upload_filename)) =>
        /\ response.status # "400"
        /\ response.status = "200" => \E n \in 1..Len(db) : db[n].id = response.id

\* C10: once the temporary upload file has been created it is gone when the
\* handler has finished, and a failed step is answered by the handler's
\* HTTP 500, never by an error of the cleanup itself.
C10_UploadTempRemoved ==
    (pc = "responded" /\ tmp_file # <<>>) =>
        /\ tmp_file \notin tmpfiles
        /\ response.status \in {"200", "500"}
        /\ cause # "none" => response.status = "500"

=============================================================================
